---- MODULE Spec2Model ----
(***************************************************************************)
(* SolanaTokenSwap: the pool state cache with liquidity-history tracking   *)
(* (pool_manager.py, class PoolManager) and the route search               *)
(* (route_optimizer.py, class RouteOptimizer), as state machines.          *)
(*                                                                         *)
(* Time is a discrete clock `now` (one tick = one unit of wall-clock       *)
(* time); datetime values are integers, timedelta values are integer       *)
(* differences.  Python floats are modelled by exact integers and, for     *)
(* percentages, by exact fractions in lowest terms.                        *)
(***************************************************************************)
EXTENDS Integers, Sequences, FiniteSets, TLC

VARIABLES
    now,                \* the wall clock read by datetime.now()
    last_rpc_call,      \* PoolManager.last_rpc_call
    last_update,        \* PoolManager.last_update: [defined, value]; the attribute
                        \* does not exist until a refresh has completed
    pools,              \* PoolManager.pools
    liquidity_history,  \* PoolManager.liquidity_history: address -> deque(maxlen)
    cache,              \* the file pool_cache.json: [exists, parses, mtime, content]
    appended,           \* history: per address, every entry ever appended, in order
    provider_calls,     \* history: number of ts-node fetchPools.ts invocations
    last,               \* history: the PoolManager call that ran last, and its result
    route_call,         \* the RouteOptimizer.find_routes call that ran last, and its result
    calc,               \* a call of one of the pure calculations: its arguments and result
    callers,            \* threads inside refresh_pools(force=True): position and locals
    readers,            \* threads iterating over self.pools: position and locals
    memory              \* the list objects self.pools has referred to: [lists, pools_id],
                        \* and held, the history of the values of self.pools

vars == <<now, last_rpc_call, last_update, pools, liquidity_history, cache,
          appended, provider_calls, last, route_call, calc, callers, readers, memory>>

threadVars == <<callers, readers, memory>>

\* what a PoolManager call made by the only thread of a program leaves alone
otherVars == <<route_call, calc, threadVars>>

poolVars == <<now, last_rpc_call, last_update, pools, liquidity_history, cache,
              appended, provider_calls, last>>

----------------------------------------------------------------------------
(* Bounds of the model and configuration of the PoolManager under check.   *)

\* PoolManager(cache_ttl=..., rpc_rate_limit=..., liquidity_window=...), in ticks
cache_ttl == 3
rpc_rate_limit == 2
liquidity_window == 4

\* the clock stops at MaxTime; at most MaxCalls provider invocations per run
MaxTime == 4
MaxCalls == 2

\* deque(maxlen=1000)
maxlen == 1000
\* datetime.min, a time far before every time of the model
datetime_min == -1000000

----------------------------------------------------------------------------
(* Data: pools as the provider lists them.                                 *)

\* liquidity map without a 'totalSupply' key
NoTotalSupply == -1

Addresses == {"P1", "P2"}
Mints == {"SOL", "USDC", "RAY"}

\* typed = TRUE : tokenA/tokenB are TokenMetadata instances (_parse_ts_output)
\* typed = FALSE: tokenA/tokenB are plain dicts (PoolInfo(**pool) in _load_cache)
Pool(addr, mA, rA, mB, rB, ts) ==
    [poolAddress |-> addr,
     tokenA |-> [mint |-> mA, reserve |-> rA],
     tokenB |-> [mint |-> mB, reserve |-> rB],
     liquidity |-> [totalSupply |-> ts],
     typed |-> TRUE]

\* the listings fetchPools.ts can print (stdout that parses to pool records)
Listings ==
    { << >>,
      << Pool("P1", "SOL", 1, "USDC", 2, 2) >>,
      << Pool("P1", "SOL", 2, "USDC", 2, 3), Pool("P2", "RAY", 0, "USDC", 4, 1) >>,
      << Pool("P2", "RAY", 2, "USDC", 4, 3), Pool("P1", "SOL", 1, "USDC", 2, NoTotalSupply) >> }

\* what one run of the provider process can produce
ProviderOutcomes ==
    { [kind |-> "CalledProcessError", listing |-> << >>],
      [kind |-> "JSONDecodeError", listing |-> << >>] }
    \cup { [kind |-> "ok", listing |-> l] : l \in Listings }

\* the ticks one run of the provider process can take
Durations == {0, 1}

----------------------------------------------------------------------------
(* Arithmetic on floats: exact fractions.                                  *)

Abs(x) == IF x < 0 THEN -x ELSE x

RECURSIVE Gcd(_, _)
Gcd(a, b) == IF b = 0 THEN a ELSE Gcd(b, a % b)

\* the fraction n/d, d > 0, in lowest terms
Frac(n, d) ==
    LET g == Gcd(Abs(n), d)
    IN  [num |-> n \div g, den |-> d \div g]

\* float('inf')
Infinity == [num |-> 1, den |-> 0]

\* mutant of PercentChange: the division is by old instead of abs(old)
PercentChangeSigned(old, new) ==
    IF old = 0
    THEN IF new = 0 THEN Frac(0, 1) ELSE Infinity
    ELSE IF old < 0
    THEN Frac(-((new - old) * 100), -old)
    ELSE Frac((new - old) * 100, old)

\* PoolManager._percent_change
PercentChange(old, new) ==
    IF old = 0
    THEN IF new = 0 THEN Frac(0, 1) ELSE Infinity
    ELSE Frac((new - old) * 100, Abs(old))

\* PoolManager._calculate_change
CalculateChange(old, new) ==
    [absolute |-> new - old, percent |-> PercentChange(old, new)]

----------------------------------------------------------------------------
(* PoolManager: liquidity history.                                         *)

\* mutant of DequeAppend: the entry is put at the left end (appendleft)
DequeAppendLeft(h, e) ==
    IF Len(h) >= maxlen THEN <<e>> \o SubSeq(h, 1, Len(h) - 1) ELSE <<e>> \o h

\* mutant of DequeAppend: a full deque refuses the new entry
DequeAppendKeepOldest(h, e) ==
    IF Len(h) >= maxlen THEN h ELSE Append(h, e)

\* collections.deque(maxlen).append: a full deque drops its oldest entry
DequeAppend(h, e) ==
    IF Len(h) >= maxlen THEN Append(Tail(h), e) ELSE Append(h, e)

NoChange ==
    [reserveA |-> CalculateChange(0, 0),
     reserveB |-> CalculateChange(0, 0),
     liquidity |-> CalculateChange(0, 0)]

\* hist_entry as built at lines 161-166; has_change = FALSE: no 'change' key
HistEntry(pool, t) ==
    [timestamp |-> t,
     reserveA |-> pool.tokenA.reserve,
     reserveB |-> pool.tokenB.reserve,
     liquidity |-> pool.liquidity.totalSupply,
     has_change |-> FALSE,
     change |-> NoChange]

\* hist_entry['change'] = {...}, lines 171-175
WithChange(e, prev, pool) ==
    [e EXCEPT !.has_change = TRUE,
              !.change = [reserveA |-> CalculateChange(prev.tokenA.reserve, pool.tokenA.reserve),
                          reserveB |-> CalculateChange(prev.tokenB.reserve, pool.tokenB.reserve),
                          liquidity |-> CalculateChange(prev.liquidity.totalSupply,
                                                        pool.liquidity.totalSupply)]]

\* previous_pools = {p.poolAddress: p for p in self.pools}: the last pool wins
PreviousPools(ps) ==
    [a \in {ps[i].poolAddress : i \in DOMAIN ps} |->
        LET k == CHOOSE i \in DOMAIN ps :
                    /\ ps[i].poolAddress = a
                    /\ \A j \in DOMAIN ps : ps[j].poolAddress = a => j <= i
        IN  ps[k]]

\* PoolManager._update_liquidity_history, from the i-th pool of current on.
\* The entry is appended before 'change' is computed, and the stored dict is
\* the one that then gets the 'change' key.  error names the exception that
\* ended the loop ("none" when it ran to its end).
RECURSIVE UpdateLiquidityHistory(_, _, _, _, _, _)
UpdateLiquidityHistory(i, previous, current, hist, app, t) ==
    IF i > Len(current)
    THEN [hist |-> hist, app |-> app, error |-> "none"]
    ELSE LET pool == current[i]
             a == pool.poolAddress
         IN  IF pool.liquidity.totalSupply = NoTotalSupply
             THEN [hist |-> hist, app |-> app, error |-> "KeyError"]
             ELSE LET e == HistEntry(pool, t)
                      app1 == [app EXCEPT ![a] = Append(@, e)]
                  IN  IF a \notin DOMAIN previous
                      THEN UpdateLiquidityHistory(i + 1, previous, current,
                               [hist EXCEPT ![a] = DequeAppend(@, e)], app1, t)
                      ELSE IF ~previous[a].typed
                      THEN \* prev.tokenA is a dict: prev.tokenA.reserve raises
                           [hist |-> [hist EXCEPT ![a] = DequeAppend(@, e)],
                            app |-> app1, error |-> "AttributeError"]
                      ELSE UpdateLiquidityHistory(i + 1, previous, current,
                               [hist EXCEPT ![a] = DequeAppend(@, WithChange(e, previous[a], pool))],
                               app1, t)

----------------------------------------------------------------------------
(* PoolManager: the persisted snapshot pool_cache.json.                    *)

NoCache == [exists |-> FALSE, parses |-> FALSE, mtime |-> 0, content |-> << >>]

\* json.dump of the pool records: tokenA/tokenB are written as vars(...), plain
\* objects, and a reader gets plain dicts back
Serialise(ps) == [i \in DOMAIN ps |-> [ps[i] EXCEPT !.typed = FALSE]]

\* PoolManager._save_cache; written = FALSE: open(..., "w") raised OSError
SaveCache(ps, c, t, written) ==
    IF written
    THEN [exists |-> TRUE, parses |-> TRUE, mtime |-> t, content |-> Serialise(ps)]
    ELSE c

\* mutant of LoadCache: a snapshot exactly cache_ttl old is rejected
LoadCacheStrict(c, ps, t) ==
    IF ~c.exists THEN [ok |-> FALSE, pools |-> ps]
    ELSE IF t - c.mtime >= cache_ttl THEN [ok |-> FALSE, pools |-> ps]
    ELSE IF ~c.parses THEN [ok |-> FALSE, pools |-> ps]
    ELSE [ok |-> TRUE, pools |-> c.content]

\* PoolManager._load_cache at time t: [ok, pools]; a failed load leaves the
\* pool list ps as it is
LoadCache(c, ps, t) ==
    IF ~c.exists THEN [ok |-> FALSE, pools |-> ps]
    ELSE IF t - c.mtime > cache_ttl THEN [ok |-> FALSE, pools |-> ps]
    ELSE IF ~c.parses THEN [ok |-> FALSE, pools |-> ps]
    ELSE [ok |-> TRUE, pools |-> c.content]

----------------------------------------------------------------------------
(* PoolManager: refresh.                                                   *)

\* mutant of EnforceRateLimit: the sleep is left out
EnforceRateLimitNoSleep(t, lastCall) == t

\* PoolManager._enforce_rate_limit called at time t: the time it returns
EnforceRateLimit(t, lastCall) ==
    IF t - lastCall < rpc_rate_limit
    THEN t + (rpc_rate_limit - (t - lastCall))
    ELSE t

\* mutant of CacheFresh: the comparison inverted
CacheFreshInverted(force, t, lu) == ~force /\ t - lu > cache_ttl

\* line 141: the early return of refresh_pools (last_update is known to exist)
CacheFresh(force, t, lu) == ~force /\ t - lu < cache_ttl

\* mutant of HandleFailure: the snapshot is loaded whatever the pool list holds
HandleFailureAlwaysLoad(ps, c, t) ==
    LET l == LoadCache(c, ps, t)
    IN  [pools |-> l.pools, raised |-> ~l.ok, handled_empty |-> ps = << >>, loaded |-> l.ok]

\* the except branch of refresh_pools, lines 153-157, entered at time t with
\* the pool list ps: [pools, raised, handled_empty, loaded]
HandleFailure(ps, c, t) ==
    IF ps # << >>
    THEN [pools |-> ps, raised |-> FALSE, handled_empty |-> FALSE, loaded |-> FALSE]
    ELSE LET l == LoadCache(c, ps, t)
         IN  [pools |-> l.pools, raised |-> ~l.ok, handled_empty |-> TRUE, loaded |-> l.ok]

\* PoolManager.refresh_pools(force) entered in the current state, when the
\* provider process behaves as prov and takes d ticks, and open(cache_path, "w")
\* succeeds iff written.  The state the call leaves and how it ended.
RefreshResult(force, prov, d, written) ==
    LET same == [now |-> now, last_rpc_call |-> last_rpc_call, last_update |-> last_update,
                 pools |-> pools, hist |-> liquidity_history, cache |-> cache,
                 app |-> appended, provider_calls |-> provider_calls,
                 outcome |-> "returned", invoked |-> FALSE, t_call |-> now,
                 fail_kind |-> "none", handled_empty |-> FALSE, loaded |-> FALSE]
    IN
    IF ~force /\ ~last_update.defined
    THEN \* line 141 reads self.last_update, which __init__ never sets
         [same EXCEPT !.outcome = "AttributeError"]
    ELSE IF CacheFresh(force, now, last_update.value)
    THEN same
    ELSE
    LET previous == PreviousPools(pools)
        t_call == EnforceRateLimit(now, last_rpc_call)
        t_done == t_call + d
        called == [same EXCEPT !.now = t_done, !.invoked = TRUE, !.t_call = t_call,
                               !.provider_calls = provider_calls + 1]
        \* the except branch, with the pool list ps and the history u
        failed(kind, ps, lastCall, u) ==
            LET h == HandleFailure(ps, cache, t_done)
            IN  [called EXCEPT !.last_rpc_call = lastCall,
                               !.hist = u.hist, !.app = u.app,
                               !.pools = h.pools,
                               !.outcome = IF h.raised THEN "RuntimeError" ELSE "returned",
                               !.fail_kind = kind,
                               !.handled_empty = h.handled_empty,
                               !.loaded = h.loaded]
        untouched == [hist |-> liquidity_history, app |-> appended]
    IN
    IF prov.kind = "CalledProcessError"
    THEN \* subprocess.run raised: line 65 is not reached
         failed("CalledProcessError", pools, last_rpc_call, untouched)
    ELSE IF prov.kind = "JSONDecodeError"
    THEN failed("JSONDecodeError", pools, t_done, untouched)
    ELSE
    LET u == UpdateLiquidityHistory(1, previous, prov.listing,
                                    liquidity_history, appended, t_done)
    IN
    IF u.error # "none"
    THEN failed(u.error, pools, t_done, u)
    ELSE IF ~written
    THEN \* self.pools = new_pools has run, _save_cache raised
         failed("OSError", prov.listing, t_done, u)
    ELSE [called EXCEPT !.last_rpc_call = t_done,
                        !.hist = u.hist, !.app = u.app,
                        !.pools = prov.listing,
                        !.cache = SaveCache(prov.listing, cache, t_done, TRUE),
                        !.last_update = [defined |-> TRUE, value |-> t_done]]

----------------------------------------------------------------------------
(* PoolManager: queries.                                                   *)

\* an optional argument left out (None)
None == "None"
NoWindow == -1

\* mutant of Matches: the liquidity bound is exclusive
MatchesAboveLiquidity(pool, base_mint, quote_mint, min_liquidity) ==
    /\ base_mint = None \/ pool.tokenA.mint = base_mint \/ pool.tokenB.mint = base_mint
    /\ quote_mint = None \/ pool.tokenA.mint = quote_mint \/ pool.tokenB.mint = quote_mint
    /\ pool.liquidity.totalSupply > min_liquidity

\* the condition of the comprehension of find_pools, lines 257-259
Matches(pool, base_mint, quote_mint, min_liquidity) ==
    /\ base_mint = None \/ pool.tokenA.mint = base_mint \/ pool.tokenB.mint = base_mint
    /\ quote_mint = None \/ pool.tokenA.mint = quote_mint \/ pool.tokenB.mint = quote_mint
    /\ pool.liquidity.totalSupply >= min_liquidity

\* pool.tokenA.mint on a pool whose tokenA is a dict raises AttributeError;
\* the attribute is read only when a mint filter is given
FilterRaises(ps, base_mint, quote_mint) ==
    /\ base_mint # None \/ quote_mint # None
    /\ \E i \in DOMAIN ps : ~ps[i].typed

FilterPools(ps, base_mint, quote_mint, min_liquidity) ==
    LET Test(p) == Matches(p, base_mint, quote_mint, min_liquidity)
    IN  SelectSeq(ps, Test)

\* mutant of GetReserve: the reserve of the other side is returned
GetReserveOtherSide(pool, token_mint) ==
    IF ~pool.typed
    THEN [error |-> "AttributeError", value |-> 0]
    ELSE IF pool.tokenA.mint = token_mint
    THEN [error |-> "none", value |-> pool.tokenB.reserve]
    ELSE IF pool.tokenB.mint = token_mint
    THEN [error |-> "none", value |-> pool.tokenA.reserve]
    ELSE [error |-> "ValueError", value |-> 0]

\* PoolManager._get_reserve: [error, value]; pool.tokenA.mint on a pool whose
\* tokenA is a dict raises AttributeError
GetReserve(pool, token_mint) ==
    IF ~pool.typed
    THEN [error |-> "AttributeError", value |-> 0]
    ELSE IF pool.tokenA.mint = token_mint
    THEN [error |-> "none", value |-> pool.tokenA.reserve]
    ELSE IF pool.tokenB.mint = token_mint
    THEN [error |-> "none", value |-> pool.tokenB.reserve]
    ELSE [error |-> "ValueError", value |-> 0]

\* PoolManager.calculate_price_impact: [outcome, value]
CalculatePriceImpact(pool, amount_in, token_mint) ==
    LET reserve == GetReserve(pool, token_mint)
    IN  IF reserve.error # "none"
        THEN [outcome |-> reserve.error, value |-> Frac(0, 1)]
        ELSE IF reserve.value = 0
        THEN [outcome |-> "returned", value |-> Infinity]
        ELSE IF reserve.value + amount_in = 0
        THEN [outcome |-> "ZeroDivisionError", value |-> Frac(0, 1)]
        ELSE IF reserve.value + amount_in < 0
        THEN [outcome |-> "returned",
              value |-> Frac(-(amount_in * 100), -(reserve.value + amount_in))]
        ELSE [outcome |-> "returned",
              value |-> Frac(amount_in * 100, reserve.value + amount_in)]

\* window = window or self.liquidity_window: None and timedelta(0) are falsy
EffectiveWindow(window) ==
    IF window = NoWindow \/ window = 0 THEN liquidity_window ELSE window

NoLiquidityChange ==
    [error |-> TRUE, reserveA |-> Frac(0, 1), reserveB |-> Frac(0, 1),
     liquidity |-> Frac(0, 1), time_window |-> 0]

\* PoolManager.liquidity_change at time t on the history h of the pool
LiquidityChangeResult(h, window, t) ==
    LET w == EffectiveWindow(window)
        InWindow(e) == t - e.timestamp <= w
        relevant == SelectSeq(h, InWindow)
    IN  IF Len(relevant) < 2
        THEN NoLiquidityChange
        ELSE LET oldest == relevant[1]
                 latest == relevant[Len(relevant)]
             IN  [error |-> FALSE,
                  reserveA |-> PercentChange(oldest.reserveA, latest.reserveA),
                  reserveB |-> PercentChange(oldest.reserveB, latest.reserveB),
                  liquidity |-> PercentChange(oldest.liquidity, latest.liquidity),
                  time_window |-> w]

----------------------------------------------------------------------------
(* PoolManager: the state machine.                                         *)

\* the record of a call: its arguments, the state it started in, how it ended
NoCall ==
    [op |-> "none", force |-> FALSE, t_entry |-> 0, t_exit |-> 0,
     pre_pools |-> << >>, pre_last_update |-> [defined |-> FALSE, value |-> 0],
     pre_provider_calls |-> 0,
     invoked |-> FALSE, t_call |-> 0, outcome |-> "returned", fail_kind |-> "none",
     handled_empty |-> FALSE, loaded |-> FALSE,
     prev_forced |-> FALSE, prev_t_call |-> 0,
     base_mint |-> None, quote_mint |-> None, min_liquidity |-> 0,
     refreshed_pools |-> << >>, ret_pools |-> << >>,
     pool_address |-> "P1", window |-> NoWindow, ret_change |-> NoLiquidityChange]

\* a snapshot an earlier run of the program left behind, as _save_cache writes it
OldSnapshot == Serialise(<< Pool("P1", "SOL", 1, "USDC", 1, 1) >>)

InitCaches ==
    { NoCache,
      [exists |-> TRUE, parses |-> FALSE, mtime |-> 0, content |-> << >>],
      [exists |-> TRUE, parses |-> TRUE, mtime |-> -1, content |-> OldSnapshot] }

\* the threads of the program
Callers == {"c1", "c2"}
Readers == {"r1"}

\* a thread that has not entered refresh_pools
IdleCaller ==
    [pc |-> "idle", previous |-> << >>, read |-> datetime_min, slept |-> FALSE,
     wake |-> 0, started |-> FALSE, start |-> 0, new_pools |-> << >>,
     fail_kind |-> "none", outcome |-> "none"]

\* a thread that has not started to iterate
IdleReader ==
    [pc |-> "idle", kind |-> "none", pools_id |-> 0, index |-> 0, seen |-> << >>,
     exhausted |-> FALSE]

\* self.pools refers to the list object lists[pools_id]
MemoryOf(ps) == [lists |-> << ps >>, pools_id |-> 1, held |-> {ps}]

\* a program with a single thread: no thread is inside the PoolManager, and the
\* identity of the list objects is not observable
NoThreads ==
    /\ callers = [c \in Callers |-> IdleCaller]
    /\ readers = [r \in Readers |-> IdleReader]
    /\ memory = MemoryOf(<< >>)

\* PoolManager.__init__
InitPool ==
    /\ now = 0
    /\ last_rpc_call = datetime_min
    /\ last_update = [defined |-> FALSE, value |-> 0]
    /\ pools = << >>
    /\ liquidity_history = [a \in Addresses |-> << >>]
    /\ cache \in InitCaches
    /\ appended = [a \in Addresses |-> << >>]
    /\ provider_calls = 0
    /\ last = NoCall

Init ==
    /\ InitPool
    /\ route_call = [op |-> "none"]
    /\ calc = [op |-> "none"]
    /\ NoThreads

\* the state a refresh leaves
Apply(r) ==
    /\ now' = r.now
    /\ last_rpc_call' = r.last_rpc_call
    /\ last_update' = r.last_update
    /\ pools' = r.pools
    /\ liquidity_history' = r.hist
    /\ cache' = r.cache
    /\ appended' = r.app
    /\ provider_calls' = r.provider_calls

\* the part of the call record every call fills in
CallRecord(op, r) ==
    [NoCall EXCEPT !.op = op, !.t_entry = now, !.t_exit = r.now,
                   !.pre_pools = pools, !.pre_last_update = last_update,
                   !.pre_provider_calls = provider_calls,
                   !.invoked = r.invoked, !.t_call = r.t_call,
                   !.outcome = r.outcome, !.fail_kind = r.fail_kind,
                   !.handled_empty = r.handled_empty, !.loaded = r.loaded,
                   !.prev_forced = (last.op = "refresh_pools" /\ last.force /\ last.invoked),
                   !.prev_t_call = last.t_call]

\* PoolManager.refresh_pools(force)
RefreshPools(force, prov, d, written) ==
    \E r \in {RefreshResult(force, prov, d, written)} :
        /\ Apply(r)
        /\ last' = [CallRecord("refresh_pools", r) EXCEPT !.force = force]
        /\ UNCHANGED otherVars

\* PoolManager.find_pools(base_mint, quote_mint, min_liquidity)
FindPools(base_mint, quote_mint, min_liquidity, prov, d, written) ==
    \E r \in {RefreshResult(FALSE, prov, d, written)} :
    LET raises == r.outcome = "returned" /\ FilterRaises(r.pools, base_mint, quote_mint)
    IN  /\ Apply(r)
        /\ last' = [CallRecord("find_pools", r) EXCEPT
                      !.base_mint = base_mint, !.quote_mint = quote_mint,
                      !.min_liquidity = min_liquidity,
                      !.refreshed_pools = r.pools,
                      !.outcome = IF raises THEN "AttributeError" ELSE r.outcome,
                      !.ret_pools = IF r.outcome = "returned" /\ ~raises
                                    THEN FilterPools(r.pools, base_mint, quote_mint, min_liquidity)
                                    ELSE << >>]
        /\ UNCHANGED otherVars

\* PoolManager.liquidity_change(pool_address, window)
LiquidityChange(pool_address, window) ==
    /\ last' = [NoCall EXCEPT !.op = "liquidity_change", !.t_entry = now, !.t_exit = now,
                              !.pre_pools = pools, !.pre_last_update = last_update,
                              !.pre_provider_calls = provider_calls,
                              !.pool_address = pool_address, !.window = window,
                              !.ret_change = LiquidityChangeResult(
                                                 liquidity_history[pool_address], window, now)]
    /\ UNCHANGED <<now, last_rpc_call, last_update, pools, liquidity_history, cache,
                   appended, provider_calls, otherVars>>

\* time passes between calls
Tick ==
    /\ now < MaxTime
    /\ now' = now + 1
    /\ UNCHANGED <<last_rpc_call, last_update, pools, liquidity_history, cache,
                   appended, provider_calls, last, otherVars>>

Bounded == now' <= MaxTime /\ provider_calls' <= MaxCalls

\* line 141 lets the call through to the provider
ReachesProvider(force) ==
    force \/ (last_update.defined /\ ~CacheFresh(force, now, last_update.value))

\* the behaviours of the environment during one call that reaches the provider:
\* the provider's outcome, its duration, and whether the snapshot can be written
\* (which matters only when the listing got as far as _save_cache)
Environments ==
    { <<prov, d, written>> \in ProviderOutcomes \X Durations \X BOOLEAN :
        written \/ (prov.kind = "ok" /\
                    \A i \in DOMAIN prov.listing :
                        prov.listing[i].liquidity.totalSupply # NoTotalSupply) }

QuietEnvironment == <<[kind |-> "CalledProcessError", listing |-> << >>], 0, TRUE>>

\* the arguments find_pools is called with
FindArguments ==
    { <<None, None, 0>>, <<"SOL", None, 0>>, <<None, "USDC", 3>>, <<"RAY", "USDC", 0>> }

CallRefreshPools ==
    \E force \in BOOLEAN :
        \E env \in IF ReachesProvider(force) THEN Environments ELSE {QuietEnvironment} :
            RefreshPools(force, env[1], env[2], env[3]) /\ Bounded

CallFindPools ==
    \E args \in FindArguments :
        \E env \in IF ReachesProvider(FALSE) THEN Environments ELSE {QuietEnvironment} :
            FindPools(args[1], args[2], args[3], env[1], env[2], env[3]) /\ Bounded

CallLiquidityChange ==
    \E pool_address \in Addresses, window \in {NoWindow, 0, 1, 3} :
        LiquidityChange(pool_address, window)

\* sequences of refresh_pools calls
Next ==
    \/ CallRefreshPools
    \/ Tick

Spec == Init /\ [][Next]_vars

\* sequences of refresh_pools and find_pools calls
NextFind ==
    \/ CallRefreshPools
    \/ CallFindPools
    \/ Tick

SpecFind == Init /\ [][NextFind]_vars

\* sequences of refresh_pools and liquidity_change calls
NextChange ==
    \/ CallRefreshPools
    \/ CallLiquidityChange
    \/ Tick

SpecChange == Init /\ [][NextChange]_vars

\* a long run of successful forced refreshes: the n-th listing of the provider
MaxRefreshes == 1002

LongRunListing(n) ==
    IF n % 2 = 0
    THEN << Pool("P1", "SOL", n % 3, "USDC", 2, 2) >>
    ELSE << Pool("P1", "SOL", n % 3, "USDC", 2, 3), Pool("P2", "RAY", 1, "USDC", n % 5, 1) >>

InitLongRun ==
    /\ Init
    /\ cache = NoCache

LongRunRefresh ==
    /\ provider_calls < MaxRefreshes
    /\ RefreshPools(TRUE, [kind |-> "ok", listing |-> LongRunListing(provider_calls)], 0, TRUE)

NextLongRun == LongRunRefresh

SpecLongRun == InitLongRun /\ [][NextLongRun]_vars

----------------------------------------------------------------------------
(* RouteOptimizer: the quote provider.                                     *)

\* _get_single_quote returned None (no route, timeout, unparsable output)
NoQuote == [available |-> FALSE, out |-> 0, tradeFee |-> 0, ownerFee |-> 0, pool |-> "none"]

\* a quote: outputToken.estimatedAmount, fees.tradeFee, fees.ownerFee, poolAddresses[0]
Quote(out, tradeFee, ownerFee, pool) ==
    [available |-> TRUE, out |-> out, tradeFee |-> tradeFee, ownerFee |-> ownerFee, pool |-> pool]

Pairs == Mints \X Mints

\* the answers of the provider during one search: quotes[<<s, t>>] to
\* getQuote(s, t, .) during the search, requotes[<<s, t>>] to the second
\* request made for the price impact, connected[m] to the pool listing
Markets ==
    { [quotes |-> [pr \in Pairs |->
                      IF pr = <<"SOL", "USDC">> THEN direct
                      ELSE IF pr = <<"SOL", "RAY">> THEN first
                      ELSE IF pr = <<"RAY", "USDC">> THEN second
                      ELSE NoQuote],
       connected |-> conn] :
        direct \in {NoQuote, Quote(50, 25, 5, "P1"), Quote(50, 80, 40, "P1"),
                    Quote(40, 150, 0, "P1"), Quote(0, 10, 0, "P1")},
        first \in {NoQuote, Quote(20, 10, 0, "P3")},
        second \in {NoQuote, Quote(60, 10, 0, "P2")},
        conn \in { [m \in Mints |-> << >>],
                   [m \in Mints |-> IF m = "SOL" THEN <<"USDC", "RAY">>
                                    ELSE IF m = "RAY" THEN <<"SOL", "USDC">>
                                    ELSE <<"SOL", "RAY">>] } }

NoQuotes == [pr \in Pairs |-> NoQuote]

----------------------------------------------------------------------------
(* RouteOptimizer: find_routes.                                            *)

\* mutant of SwapStep: the two mints of the step are swapped
SwapStepReversed(source_mint, target_mint, quote, in_amount) ==
    [source_mint |-> target_mint, target_mint |-> source_mint,
     pool_address |-> quote.pool, in_amount |-> in_amount,
     out_amount |-> quote.out, fees |-> quote.tradeFee + quote.ownerFee]

\* SwapStep(...) as find_routes builds it, lines 83-90 and 115-122
SwapStep(source_mint, target_mint, quote, in_amount) ==
    [source_mint |-> source_mint, target_mint |-> target_mint,
     pool_address |-> quote.pool, in_amount |-> in_amount,
     out_amount |-> quote.out, fees |-> quote.tradeFee + quote.ownerFee]

\* heapq.heappush of (-out_amount, path): the heap as a sequence in key order.
\* Two entries with equal keys make heapq compare the paths, lists of SwapStep,
\* which define no order: TypeError.
HeapPush(heap, item) ==
    IF \E i \in DOMAIN heap : heap[i].key = item.key
    THEN [heap |-> heap, error |-> "TypeError"]
    ELSE LET before == SelectSeq(heap, LAMBDA x : x.key < item.key)
             after == SelectSeq(heap, LAMBDA x : x.key > item.key)
         IN  [heap |-> before \o <<item>> \o after, error |-> "none"]

\* the inner loop, lines 110-127, from the k-th connected token on
RECURSIVE Expand(_, _, _, _, _, _)
Expand(tokens, k, heap, path, market, threshold) ==
    IF k > Len(tokens)
    THEN [heap |-> heap, error |-> "none"]
    ELSE LET current == path[Len(path)]
             quote == market.quotes[<<current.target_mint, tokens[k]>>]
         IN  IF ~quote.available \/ quote.tradeFee > threshold
             THEN Expand(tokens, k + 1, heap, path, market, threshold)
             ELSE LET step == SwapStep(current.target_mint, tokens[k], quote, current.out_amount)
                      pushed == HeapPush(heap, [key |-> -quote.out, path |-> Append(path, step)])
                  IN  IF pushed.error # "none"
                      THEN pushed
                      ELSE Expand(tokens, k + 1, pushed.heap, path, market, threshold)

\* the outer loop, lines 93-127, with `rounds` iterations left:
\* [viable, expanded, error]; expanded counts the _get_connected_tokens calls
RECURSIVE Search(_, _, _, _, _, _, _, _)
Search(rounds, heap, visited, viable, expanded, market, target_mint, threshold) ==
    IF rounds <= 0 \/ heap = << >>
    THEN [viable |-> viable, expanded |-> expanded, error |-> "none"]
    ELSE LET current_path == Head(heap).path
             rest == Tail(heap)
             current_token == current_path[Len(current_path)].target_mint
         IN  IF current_token = target_mint
             THEN Search(rounds - 1, rest, visited, Append(viable, current_path),
                         expanded, market, target_mint, threshold)
             ELSE IF current_token \in visited
             THEN Search(rounds - 1, rest, visited, viable, expanded,
                         market, target_mint, threshold)
             ELSE LET grown == Expand(market.connected[current_token], 1, rest,
                                      current_path, market, threshold)
                  IN  IF grown.error # "none"
                      THEN [viable |-> viable, expanded |-> expanded + 1, error |-> grown.error]
                      ELSE Search(rounds - 1, grown.heap, visited \cup {current_token},
                                  viable, expanded + 1, market, target_mint, threshold)

\* mutant of Take: the slice is left out, every viable route is formatted
TakeAll(seq, n) == seq

\* viable_routes[:max_routes]
Take(seq, n) ==
    IF n >= 0
    THEN SubSeq(seq, 1, IF n < Len(seq) THEN n ELSE Len(seq))
    ELSE SubSeq(seq, 1, IF Len(seq) + n > 0 THEN Len(seq) + n ELSE 0)

\* the fraction n/d, d # 0, in lowest terms with a positive denominator
Ratio(n, d) == IF d < 0 THEN Frac(-n, -d) ELSE Frac(n, d)

\* RouteOptimizer._calculate_price_impact from the k-th step on; impact is the
\* product so far.  The provider echoes the amount asked as inputToken.amount.
RECURSIVE PriceImpact(_, _, _, _)
PriceImpact(path, k, impact, requotes) ==
    IF k > Len(path)
    THEN [value |-> Ratio((impact.den - impact.num) * 100, impact.den), error |-> "none"]
    ELSE LET step == path[k]
             quote == requotes[<<step.source_mint, step.target_mint>>]
         IN  IF ~quote.available
             THEN PriceImpact(path, k + 1, impact, requotes)
             ELSE IF step.in_amount = 0 \/ quote.out = 0
             THEN \* fair_price or actual_price divides by in_amount, which is 0,
                  \* or actual_price / fair_price divides by a fair price of 0
                  [value |-> Frac(0, 1), error |-> "ZeroDivisionError"]
             ELSE PriceImpact(path, k + 1,
                              Ratio(impact.num * step.out_amount, impact.den * quote.out),
                              requotes)

RECURSIVE TotalFees(_)
TotalFees(path) == IF path = << >> THEN 0 ELSE Head(path).fees + TotalFees(Tail(path))

\* sorted(routes, key=total_output, reverse=True): stable
RECURSIVE SortRoutes(_)
SortRoutes(routes) ==
    IF routes = << >>
    THEN << >>
    ELSE LET r == Head(routes)
             sorted == SortRoutes(Tail(routes))
             ahead == SelectSeq(sorted, LAMBDA x : x.total_output > r.total_output)
             behind == SelectSeq(sorted, LAMBDA x : x.total_output <= r.total_output)
         IN  ahead \o <<r>> \o behind

\* RouteOptimizer._format_routes from the k-th path on
RECURSIVE FormatRoutes(_, _, _, _, _)
FormatRoutes(paths, k, routes, input_amount, requotes) ==
    IF k > Len(paths)
    THEN [routes |-> SortRoutes(routes), error |-> "none"]
    ELSE LET path == paths[k]
             impact == PriceImpact(path, 1, Frac(1, 1), requotes)
         IN  IF impact.error # "none"
             THEN [routes |-> << >>, error |-> impact.error]
             ELSE FormatRoutes(paths, k + 1,
                      Append(routes, [path |-> path,
                                      total_input |-> input_amount,
                                      total_output |-> path[Len(path)].out_amount,
                                      total_fees |-> TotalFees(path),
                                      price_impact |-> impact.value]),
                      input_amount, requotes)

\* RouteOptimizer.find_routes: [outcome, routes, expanded]
FindRoutesResult(source_mint, target_mint, amount, max_hops, max_routes, fee_bps_threshold, market, requotes) ==
    LET direct_quote == market.quotes[<<source_mint, target_mint>>]
        heap == IF direct_quote.available
                THEN << [key |-> -direct_quote.out,
                         path |-> << SwapStep(source_mint, target_mint, direct_quote, amount) >>] >>
                ELSE << >>
        found == Search(max_hops - 1, heap, {}, << >>, 0, market, target_mint,
                        fee_bps_threshold)
        formatted == FormatRoutes(Take(found.viable, max_routes), 1, << >>, amount, requotes)
    IN  IF found.error # "none"
        THEN [outcome |-> found.error, routes |-> << >>, expanded |-> found.expanded]
        ELSE IF formatted.error # "none"
        THEN [outcome |-> formatted.error, routes |-> << >>, expanded |-> found.expanded]
        ELSE [outcome |-> "returned", routes |-> formatted.routes, expanded |-> found.expanded]

\* the market after it moved: every estimate 10 higher
Moved(quotes) ==
    [pr \in Pairs |-> IF quotes[pr].available
                      THEN [quotes[pr] EXCEPT !.out = @ + 10]
                      ELSE quotes[pr]]

\* one call of find_routes on a RouteOptimizer, which keeps no state between calls
FindRoutes(source_mint, target_mint, amount, max_hops, max_routes, fee_bps_threshold, market, requotes) ==
    /\ route_call.op = "none"
    /\ \E r \in {FindRoutesResult(source_mint, target_mint, amount, max_hops, max_routes,
                                  fee_bps_threshold, market, requotes)} :
         route_call' = [op |-> "find_routes",
                        source_mint |-> source_mint, target_mint |-> target_mint,
                        amount |-> amount, max_hops |-> max_hops,
                        max_routes |-> max_routes,
                        fee_bps_threshold |-> fee_bps_threshold,
                        market |-> market, requotes |-> requotes,
                        outcome |-> r.outcome, routes |-> r.routes,
                        expanded |-> r.expanded]
    /\ UNCHANGED <<poolVars, calc, threadVars>>

CallFindRoutes ==
    \E amount \in {1, 2}, max_hops \in {1, 2, 3}, max_routes \in {0, 1, 2},
       fee_bps_threshold \in {30, 100}, market \in Markets :
        \E requotes \in {market.quotes, Moved(market.quotes), NoQuotes} :
            FindRoutes("SOL", "USDC", amount, max_hops, max_routes,
                       fee_bps_threshold, market, requotes)

InitRoute ==
    /\ Init
    /\ cache = NoCache

NextRoute == CallFindRoutes

SpecRoute == InitRoute /\ [][NextRoute]_vars

----------------------------------------------------------------------------
(* The pure calculations of PoolManager, applied to arguments drawn at the *)
(* start.                                                                  *)

\* pools as _parse_ts_output builds them, passed to calculate_price_impact
ImpactPools ==
    { Pool("P1", "SOL", 1000, "USDC", 10, 2),
      Pool("P1", "SOL", 0, "USDC", 3, 2),
      Pool("P2", "RAY", 2, "USDC", 0, 1),
      Pool("P2", "USDC", 5, "RAY", 5, 1) }

ImpactAmounts == {0, 1, 10}

\* the floats _percent_change is applied to
ChangeValues == {-4, -2, 0, 1, 2, 3}

\* the arguments of the calls to come
InitCalc ==
    /\ InitPool
    /\ cache = NoCache
    /\ route_call = [op |-> "none"]
    /\ NoThreads
    /\ \E pool \in ImpactPools, amount_in \in ImpactAmounts, token_mint \in Mints,
          old \in ChangeValues, new \in ChangeValues :
            calc = [op |-> "none", pool |-> pool, amount_in |-> amount_in,
                    token_mint |-> token_mint, old |-> old, new |-> new,
                    outcome |-> "none", value |-> Frac(0, 1)]

\* PoolManager.calculate_price_impact(pool, amount_in, token_mint)
CallCalculatePriceImpact ==
    /\ calc.op = "none"
    /\ \E r \in {CalculatePriceImpact(calc.pool, calc.amount_in, calc.token_mint)} :
         calc' = [calc EXCEPT !.op = "calculate_price_impact",
                              !.outcome = r.outcome, !.value = r.value]
    /\ UNCHANGED <<poolVars, route_call, threadVars>>

\* PoolManager._percent_change(old, new)
CallPercentChange ==
    /\ calc.op = "none"
    /\ calc' = [calc EXCEPT !.op = "_percent_change", !.outcome = "returned",
                            !.value = PercentChange(calc.old, calc.new)]
    /\ UNCHANGED <<poolVars, route_call, threadVars>>

NextCalc ==
    \/ CallCalculatePriceImpact
    \/ CallPercentChange

SpecCalc == InitCalc /\ [][NextCalc]_vars

----------------------------------------------------------------------------
(* Threads: two callers of refresh_pools(force=True) and a reader of       *)
(* self.pools on one PoolManager.  The code takes no lock; a step is one   *)
(* access to the shared state or to the clock.                             *)

\* mutant of Publish: the list object self.pools refers to is overwritten
\* in place (self.pools[:] = new_pools)
PublishInPlace(mem, ps) ==
    [mem EXCEPT !.lists[mem.pools_id] = ps, !.held = @ \cup {ps}]

\* self.pools = <a list built beforehand>, lines 149 and 116: the attribute is
\* bound to a new list object, the old object is left as it is
Publish(mem, ps) ==
    [lists |-> Append(mem.lists, ps), pools_id |-> Len(mem.lists) + 1,
     held |-> mem.held \cup {ps}]

\* the listing of the refresh that the running program of InitRunning made
RunningListing ==
    << Pool("P1", "SOL", 1, "USDC", 1, 1), Pool("P2", "RAY", 3, "USDC", 3, 2) >>

\* a program that completed refresh_pools(force=True) at time 0
InitRunning ==
    LET none == [a \in Addresses |-> << >>]
        u == UpdateLiquidityHistory(1, PreviousPools(<< >>), RunningListing, none, none, 0)
    IN  /\ now = 0
        /\ last_rpc_call = 0
        /\ last_update = [defined |-> TRUE, value |-> 0]
        /\ pools = RunningListing
        /\ liquidity_history = u.hist
        /\ cache = SaveCache(RunningListing, NoCache, 0, TRUE)
        /\ appended = u.app
        /\ provider_calls = 1
        /\ last = NoCall

\* threads start on a new PoolManager or on one that has refreshed already
InitThreads ==
    /\ InitPool \/ InitRunning
    /\ route_call = [op |-> "none"]
    /\ calc = [op |-> "none"]
    /\ callers = [c \in Callers |-> IdleCaller]
    /\ readers = [r \in Readers |-> IdleReader]
    /\ memory = MemoryOf(pools)

\* what a step of a caller leaves alone besides the PoolManager's attributes
callerFrame == <<last, route_call, calc, readers>>

\* line 144: previous_pools is built from the list self.pools refers to
Begin(c) ==
    /\ callers[c].pc = "idle"
    /\ callers' = [callers EXCEPT ![c].pc = "enforce", ![c].previous = pools]
    /\ UNCHANGED <<now, last_rpc_call, last_update, pools, liquidity_history, cache,
                   appended, provider_calls, memory, callerFrame>>

\* lines 49-51: the clock and self.last_rpc_call are read, the sleep computed
ReadLastCall(c) ==
    /\ callers[c].pc = "enforce"
    /\ LET wake == EnforceRateLimit(now, last_rpc_call)
       IN  callers' = [callers EXCEPT ![c].read = last_rpc_call,
                                      ![c].wake = wake,
                                      ![c].slept = wake > now,
                                      ![c].pc = IF wake > now THEN "sleeping" ELSE "ready"]
    /\ UNCHANGED <<now, last_rpc_call, last_update, pools, liquidity_history, cache,
                   appended, provider_calls, memory, callerFrame>>

\* line 53: time.sleep returns once the sleep time has passed
Wake(c) ==
    /\ callers[c].pc = "sleeping"
    /\ now >= callers[c].wake
    /\ callers' = [callers EXCEPT ![c].pc = "ready"]
    /\ UNCHANGED <<now, last_rpc_call, last_update, pools, liquidity_history, cache,
                   appended, provider_calls, memory, callerFrame>>

\* line 59: the provider process is started
StartCall(c) ==
    /\ callers[c].pc = "ready"
    /\ callers' = [callers EXCEPT ![c].pc = "running", ![c].started = TRUE,
                                  ![c].start = now]
    /\ provider_calls' = provider_calls + 1
    /\ UNCHANGED <<now, last_rpc_call, last_update, pools, liquidity_history, cache,
                   appended, memory, callerFrame>>

\* lines 59-72: the provider process ends as prov; on success line 65 writes
\* self.last_rpc_call and _parse_ts_output builds new_pools, a local list
ProcessReturns(c, prov) ==
    /\ callers[c].pc = "running"
    /\ last_rpc_call' = IF prov.kind = "CalledProcessError" THEN last_rpc_call ELSE now
    /\ callers' = IF prov.kind = "ok"
                  THEN [callers EXCEPT ![c].pc = "fetched", ![c].new_pools = prov.listing]
                  ELSE [callers EXCEPT ![c].pc = "failed", ![c].fail_kind = prov.kind]
    /\ UNCHANGED <<now, last_update, pools, liquidity_history, cache,
                   appended, provider_calls, memory, callerFrame>>

\* line 148: _update_liquidity_history(previous_pools, new_pools)
UpdateHistory(c) ==
    /\ callers[c].pc = "fetched"
    /\ \E u \in {UpdateLiquidityHistory(1, PreviousPools(callers[c].previous),
                                         callers[c].new_pools, liquidity_history,
                                         appended, now)} :
         /\ liquidity_history' = u.hist
         /\ appended' = u.app
         /\ callers' = IF u.error = "none"
                       THEN [callers EXCEPT ![c].pc = "updated"]
                       ELSE [callers EXCEPT ![c].pc = "failed", ![c].fail_kind = u.error]
    /\ UNCHANGED <<now, last_rpc_call, last_update, pools, cache,
                   provider_calls, memory, callerFrame>>

\* line 149: self.pools = new_pools
SwapPools(c) ==
    /\ callers[c].pc = "updated"
    /\ memory' = Publish(memory, callers[c].new_pools)
    /\ pools' = memory'.lists[memory'.pools_id]
    /\ callers' = [callers EXCEPT ![c].pc = "swapped"]
    /\ UNCHANGED <<now, last_rpc_call, last_update, liquidity_history, cache,
                   appended, provider_calls, callerFrame>>

\* lines 150-151: _save_cache writes the list self.pools refers to now, then
\* self.last_update is set; written = FALSE: open(..., "w") raised
SaveAndStamp(c, written) ==
    /\ callers[c].pc = "swapped"
    /\ cache' = SaveCache(pools, cache, now, written)
    /\ last_update' = IF written THEN [defined |-> TRUE, value |-> now] ELSE last_update
    /\ callers' = IF written
                  THEN [callers EXCEPT ![c].pc = "done", ![c].outcome = "returned"]
                  ELSE [callers EXCEPT ![c].pc = "failed", ![c].fail_kind = "OSError"]
    /\ UNCHANGED <<now, last_rpc_call, pools, liquidity_history,
                   appended, provider_calls, memory, callerFrame>>

\* lines 153-157: the except branch; _load_cache binds self.pools to the list
\* it has built from the snapshot
Recover(c) ==
    /\ callers[c].pc = "failed"
    /\ \E h \in {HandleFailure(pools, cache, now)} :
         /\ memory' = IF h.loaded THEN Publish(memory, h.pools) ELSE memory
         /\ pools' = memory'.lists[memory'.pools_id]
         /\ callers' = [callers EXCEPT ![c].pc = "done",
                                       ![c].outcome = IF h.raised THEN "RuntimeError"
                                                      ELSE "returned"]
    /\ UNCHANGED <<now, last_rpc_call, last_update, liquidity_history, cache,
                   appended, provider_calls, callerFrame>>

\* the iterations over self.pools: the comprehension of find_pools (255-260),
\* the loop of get_token_pairs (265), the generator of get_pool_by_address (272)
ReaderKinds == {"find_pools", "get_token_pairs", "get_pool_by_address"}

\* the address get_pool_by_address looks for
LookupAddress == "P2"

\* self.pools is evaluated once, and the iteration holds that list object
ReadBegin(r, kind) ==
    /\ readers[r].pc = "idle"
    /\ readers' = [readers EXCEPT ![r].pc = "reading", ![r].kind = kind,
                                  ![r].pools_id = memory.pools_id, ![r].index = 1]
    /\ UNCHANGED <<poolVars, route_call, calc, callers, memory>>

\* the iteration takes the next pool of its list object;
\* next(...) of get_pool_by_address stops at the first pool of the address
ReadNext(r) ==
    /\ readers[r].pc = "reading"
    /\ readers[r].index <= Len(memory.lists[readers[r].pools_id])
    /\ LET pool == memory.lists[readers[r].pools_id][readers[r].index]
           found == readers[r].kind = "get_pool_by_address"
                        /\ pool.poolAddress = LookupAddress
       IN  readers' = [readers EXCEPT ![r].seen = Append(@, pool),
                                      ![r].index = @ + 1,
                                      ![r].pc = IF found THEN "done" ELSE "reading"]
    /\ UNCHANGED <<poolVars, route_call, calc, callers, memory>>

\* the list object has no further pool: the iteration ends
ReadEnd(r) ==
    /\ readers[r].pc = "reading"
    /\ readers[r].index > Len(memory.lists[readers[r].pools_id])
    /\ readers' = [readers EXCEPT ![r].pc = "done", ![r].exhausted = TRUE]
    /\ UNCHANGED <<poolVars, route_call, calc, callers, memory>>

\* what the provider process answers to the threads: a failure, a listing of
\* two pools, a listing with a record that lacks totalSupply
ThreadOutcomes ==
    { prov \in ProviderOutcomes :
        prov.kind = "CalledProcessError" \/ (prov.kind = "ok" /\ Len(prov.listing) = 2) }

\* the clock of the threaded runs stops at MaxThreadTime
MaxThreadTime == 3

ThreadTick == now < MaxThreadTime /\ Tick

\* one step of caller c inside refresh_pools(force=True)
CallerStep(c) ==
    \/ Begin(c)
    \/ ReadLastCall(c)
    \/ Wake(c)
    \/ StartCall(c)
    \/ \E prov \in ThreadOutcomes : ProcessReturns(c, prov)
    \/ UpdateHistory(c)
    \/ SwapPools(c)
    \/ \E written \in BOOLEAN : SaveAndStamp(c, written)
    \/ Recover(c)

\* one step of reader r
ReaderStep(r) ==
    \/ \E kind \in ReaderKinds : ReadBegin(r, kind)
    \/ ReadNext(r)
    \/ ReadEnd(r)

\* two threads call refresh_pools(force=True) on one PoolManager
NextRace ==
    \/ \E c \in Callers : CallerStep(c)
    \/ ThreadTick

SpecRace == InitThreads /\ [][NextRace]_vars

\* one thread calls refresh_pools(force=True) while another reads self.pools
NextSwap ==
    \/ CallerStep("c1")
    \/ \E r \in Readers : ReaderStep(r)
    \/ ThreadTick

SpecSwap == InitThreads /\ [][NextSwap]_vars

----------------------------------------------------------------------------
(* Claims about refresh_pools, checked under Spec.                         *)

\* the last call was refresh_pools(force = f)
LastRefresh(f) == last.op = "refresh_pools" /\ last.force = f

\* C1 (P1, cache TTL): a call refresh_pools(force=False) entered less than
\* cache_ttl after the last successful refresh makes no provider pool-listing
\* call and leaves the pool list as it was.
C1_CacheTTL ==
    ( /\ LastRefresh(FALSE)
      /\ last.pre_last_update.defined
      /\ last.t_entry - last.pre_last_update.value < cache_ttl )
    => ( /\ ~last.invoked
         /\ provider_calls = last.pre_provider_calls
         /\ pools = last.pre_pools
         /\ last.outcome = "returned" )

\* a non-forced refresh some time after a successful one, within the TTL, on a
\* non-empty pool list
C1_Witness ==
    /\ LastRefresh(FALSE)
    /\ last.pre_last_update.defined
    /\ last.t_entry > last.pre_last_update.value
    /\ last.t_entry - last.pre_last_update.value < cache_ttl
    /\ last.pre_pools # << >>
    /\ ~last.invoked

\* C2 (P2, rate limit): of two consecutive calls refresh_pools(force=True), the
\* provider invocation of the second starts at least rpc_rate_limit after the
\* provider invocation of the first, whatever the outcome of the first.
C2_RateLimit ==
    (LastRefresh(TRUE) /\ last.prev_forced)
    => last.t_call - last.prev_t_call >= rpc_rate_limit

\* C4: a non-forced refresh on a PoolManager that never completed a refresh
\* invokes the provider and ends with the pool list replaced or with the
\* documented failure handling (stale data kept, snapshot loaded, or the fatal
\* 'No pool data available'), never with another error.
C4_FirstRefreshReachesProvider ==
    (LastRefresh(FALSE) /\ ~last.pre_last_update.defined)
    => (last.invoked /\ last.outcome \in {"returned", "RuntimeError"})

\* C5: a refresh that reached the provider and failed with a provider error or
\* unparsable output while the pool list was non-empty returns normally and
\* leaves the pool list exactly as it was.
C5_StaleDataRetained ==
    ( /\ last.op = "refresh_pools"
      /\ last.invoked
      /\ last.fail_kind \in {"CalledProcessError", "JSONDecodeError"}
      /\ last.pre_pools # << >> )
    => (last.outcome = "returned" /\ pools = last.pre_pools)

\* a failed refresh on a non-empty pool list while a loadable snapshot exists
C5_Witness ==
    /\ last.op = "refresh_pools"
    /\ last.invoked
    /\ last.fail_kind = "CalledProcessError"
    /\ last.pre_pools # << >>
    /\ cache.exists /\ cache.parses /\ last.t_exit - cache.mtime <= cache_ttl
    /\ cache.content # last.pre_pools

\* C6: when a refresh fails and the failure is handled with an empty pool
\* list, the snapshot is loaded if and only if it exists, parses and is at most
\* cache_ttl old; otherwise the call fails with 'No pool data available' and
\* the pool list stays empty.  (The failure handler is the last to act, so the
\* file after the call is the file of the load, made at time last.t_exit.)
C6_SnapshotFallback ==
    (last.op = "refresh_pools" /\ last.handled_empty)
    => IF cache.exists /\ cache.parses /\ last.t_exit - cache.mtime <= cache_ttl
       THEN last.loaded /\ last.outcome = "returned" /\ pools = cache.content
       ELSE ~last.loaded /\ last.outcome = "RuntimeError" /\ pools = << >>

\* a snapshot loaded at the very edge of its validity, age = cache_ttl
C6_Witness ==
    /\ last.op = "refresh_pools"
    /\ last.handled_empty
    /\ last.loaded
    /\ last.t_exit - cache.mtime = cache_ttl
    /\ pools # << >>

\* the fatal case: a snapshot that exists and parses but is too old
C6_WitnessFatal ==
    /\ last.op = "refresh_pools"
    /\ last.handled_empty
    /\ last.outcome = "RuntimeError"
    /\ cache.exists /\ cache.parses

----------------------------------------------------------------------------
(* Claims about the liquidity history, checked under SpecLongRun.          *)

\* the fields of a history entry that are set when it is appended
Appended(e) ==
    [timestamp |-> e.timestamp, reserveA |-> e.reserveA,
     reserveB |-> e.reserveB, liquidity |-> e.liquidity]

\* C3 (P3, history bound): each pool's history holds at most 1000 entries; once
\* 1000 or more entries have been appended for a pool, its history holds
\* exactly 1000, and they are the 1000 appended last, in the order appended.
C3_HistoryBound ==
    \A a \in Addresses :
        LET h == liquidity_history[a]
            n == Len(appended[a])
        IN  /\ Len(h) <= 1000
            /\ n >= 1000 =>
                 /\ Len(h) = 1000
                 /\ \A i \in 1..1000 : Appended(h[i]) = Appended(appended[a][n - 1000 + i])

\* the pool has been recorded more than 1000 times: entries have been evicted
C3_Witness ==
    /\ Len(appended["P1"]) > 1000
    /\ Len(liquidity_history["P1"]) = 1000
    /\ liquidity_history["P1"][1000].timestamp = now

----------------------------------------------------------------------------
(* Claims about find_pools, checked under SpecFind.                        *)

\* C7: whenever the pool list is non-empty, find_pools returns a pool list
\* and does not raise, whatever the provider does during the implicit refresh.
C7_FindPoolsNeverRaises ==
    (last.op = "find_pools" /\ last.pre_pools # << >>)
    => last.outcome = "returned"

\* the i-th pool of the list passes the filters of the call
Wanted(ps, i) ==
    /\ \/ last.base_mint = None
       \/ ps[i].tokenA.mint = last.base_mint
       \/ ps[i].tokenB.mint = last.base_mint
    /\ \/ last.quote_mint = None
       \/ ps[i].tokenA.mint = last.quote_mint
       \/ ps[i].tokenB.mint = last.quote_mint
    /\ ps[i].liquidity.totalSupply >= last.min_liquidity

\* C8: a find_pools call that returns has first done a non-forced refresh (a
\* provider call exactly when the cache is cache_ttl old or older) and returns
\* exactly the pools of the refreshed list that pass the base filter, the
\* quote filter and the liquidity bound, in the order of the list, which it
\* leaves as the refresh made it.
C8_FindPoolsFilter ==
    (last.op = "find_pools" /\ last.outcome = "returned")
    => LET ps == last.refreshed_pools
           ret == last.ret_pools
           idx == {i \in DOMAIN ps : Wanted(ps, i)}
       IN  /\ last.pre_last_update.defined
           /\ last.invoked = (last.t_entry - last.pre_last_update.value >= cache_ttl)
           /\ ~last.invoked => ps = last.pre_pools
           /\ pools = ps
           /\ Len(ret) = Cardinality(idx)
           /\ \A k \in DOMAIN ret :
                \E i \in idx : /\ Cardinality({j \in idx : j < i}) = k - 1
                               /\ ret[k] = ps[i]

\* find_pools refreshed from the provider, then kept one pool of two: one at
\* the liquidity bound kept, one below it dropped
C8_Witness ==
    /\ last.op = "find_pools"
    /\ last.outcome = "returned"
    /\ last.invoked
    /\ Len(pools) = 2
    /\ Len(last.ret_pools) = 1
    /\ last.quote_mint # None
    /\ last.ret_pools[1].liquidity.totalSupply = last.min_liquidity

----------------------------------------------------------------------------
(* Claims about liquidity_change, checked under SpecChange.                *)

\* C9: liquidity_change considers the entries of the pool whose age is at
\* most the window passed (the configured window only when none is passed);
\* with fewer than two of them it returns 'Insufficient data', otherwise the
\* percent change of reserveA, reserveB and liquidity from the oldest to the
\* newest of them.
C9_LiquidityChangeWindow ==
    last.op = "liquidity_change"
    => LET w == IF last.window = NoWindow THEN liquidity_window ELSE last.window
           h == liquidity_history[last.pool_address]
           q == {i \in DOMAIN h : last.t_entry - h[i].timestamp <= w}
           ret == last.ret_change
       IN  IF Cardinality(q) < 2
           THEN ret.error
           ELSE LET oldest == h[CHOOSE i \in q : \A j \in q : i <= j]
                    latest == h[CHOOSE i \in q : \A j \in q : j <= i]
                IN  /\ ~ret.error
                    /\ ret.reserveA = PercentChange(oldest.reserveA, latest.reserveA)
                    /\ ret.reserveB = PercentChange(oldest.reserveB, latest.reserveB)
                    /\ ret.liquidity = PercentChange(oldest.liquidity, latest.liquidity)
                    /\ ret.time_window = w

\* the same, for the calls that pass no window or a window other than zero
C9_ExceptZeroWindow ==
    last.window # 0 => C9_LiquidityChangeWindow

----------------------------------------------------------------------------
(* Claims about find_routes, checked under SpecRoute.                      *)

\* C10 (P6, fee threshold): every hop of every returned route, the direct hop
\* included, has a fee of at most fee_bps_threshold.
C10_FeeThreshold ==
    (route_call.op = "find_routes" /\ route_call.outcome = "returned")
    => \A i \in DOMAIN route_call.routes :
         \A k \in DOMAIN route_call.routes[i].path :
            route_call.routes[i].path[k].fees <= route_call.fee_bps_threshold

\* a find_routes call has run; Returned: it returned a route list
RouteCalled == route_call.op = "find_routes"
Returned == RouteCalled /\ route_call.outcome = "returned"
DirectQuote == route_call.market.quotes[<<route_call.source_mint, route_call.target_mint>>]

\* C11 (P7, route bound): a find_routes call with max_hops >= 1 and
\* max_routes >= 0 returns at most max_routes routes, each of at most max_hops
\* steps.
C11_RouteBound ==
    (Returned /\ route_call.max_hops >= 1 /\ route_call.max_routes >= 0)
    => /\ Len(route_call.routes) <= route_call.max_routes
       /\ \A i \in DOMAIN route_call.routes :
            Len(route_call.routes[i].path) <= route_call.max_hops

\* a call that returned as many routes as max_routes allows
C11_Witness ==
    /\ Returned
    /\ route_call.max_routes = 1
    /\ Len(route_call.routes) = 1
    /\ Len(route_call.routes[1].path) = 1

\* C12 (no hard dependency on a direct route): when the direct quote is
\* unavailable and max_hops >= 2, the search asks for the connected assets of
\* the source at least once.
C12_ExpandsWithoutDirectRoute ==
    (RouteCalled /\ ~DirectQuote.available /\ route_call.max_hops >= 2)
    => route_call.expanded >= 1

\* C13 (never raises for "no path found"): whatever the provider answers,
\* unavailable or well-formed quotes, find_routes returns a route list.
C13_NeverRaises ==
    RouteCalled => route_call.outcome = "returned"

\* C17 (direct route returned): when the direct quote is available and
\* max_routes >= 1, the result contains the single-step direct route, for
\* every max_hops >= 1.
C17_DirectRouteReturned ==
    (RouteCalled /\ DirectQuote.available /\ route_call.max_routes >= 1
        /\ route_call.max_hops >= 1)
    => /\ route_call.outcome = "returned"
       /\ \E i \in DOMAIN route_call.routes :
            /\ Len(route_call.routes[i].path) = 1
            /\ route_call.routes[i].path[1].source_mint = route_call.source_mint
            /\ route_call.routes[i].path[1].target_mint = route_call.target_mint

\* C18 (frontier): no path popped from the frontier ends anywhere but at
\* target_mint, so _get_connected_tokens is never called, and a result holds
\* at most one route, of exactly one hop source_mint -> target_mint.
C18_FrontierOnlyDirect ==
    RouteCalled
    => /\ route_call.expanded = 0
       /\ route_call.outcome = "returned"
          => /\ Len(route_call.routes) <= 1
             /\ \A i \in DOMAIN route_call.routes :
                  /\ Len(route_call.routes[i].path) = 1
                  /\ route_call.routes[i].path[1].source_mint = route_call.source_mint
                  /\ route_call.routes[i].path[1].target_mint = route_call.target_mint

\* a search with three hops allowed, in a market where SOL -> RAY -> USDC
\* exists and pays more than the direct route, returned the direct route alone
C18_Witness ==
    /\ Returned
    /\ route_call.max_hops = 3
    /\ route_call.max_routes = 2
    /\ route_call.market.quotes[<<"SOL", "RAY">>].available
    /\ route_call.market.quotes[<<"RAY", "USDC">>].available
    /\ route_call.market.connected["SOL"] # << >>
    /\ Len(route_call.routes) = 1

----------------------------------------------------------------------------
(* Claims about invalid pool data, checked under Spec.                     *)

\* C14 (InvalidPoolData surfaced): a refresh_pools call whose listing holds a
\* record without an expected field (no totalSupply) raises to its caller,
\* whether or not a pool list is already in memory.
C14_InvalidPoolDataSurfaced ==
    (last.op = "refresh_pools" /\ last.invoked /\ last.fail_kind = "KeyError")
    => last.outcome # "returned"

----------------------------------------------------------------------------
(* Claims about the pure calculations, checked under SpecCalc.             *)

\* the value v is the fraction n/d (d # 0)
IsFraction(v, n, d) == v.den > 0 /\ v.num * d = n * v.den

\* C15 (price impact): calculate_price_impact fails with "token not in pool"
\* when token_mint is the mint of neither side; otherwise, with reserve the
\* reserve of the side token_mint names, it returns infinity when reserve = 0
\* and amount_in / (reserve + amount_in) * 100 when reserve # 0, whatever the
\* reserve of the other side.
C15_PriceImpact ==
    calc.op = "calculate_price_impact"
    => LET onA == calc.pool.tokenA.mint = calc.token_mint
           onB == calc.pool.tokenB.mint = calc.token_mint
           reserve == IF onA THEN calc.pool.tokenA.reserve ELSE calc.pool.tokenB.reserve
       IN  IF ~onA /\ ~onB
           THEN calc.outcome = "ValueError"
           ELSE /\ calc.outcome = "returned"
                /\ reserve = 0 => calc.value = Infinity
                /\ reserve # 0 => IsFraction(calc.value, calc.amount_in * 100,
                                              reserve + calc.amount_in)

\* the example of the claim: reserve 1000 and amount_in 10 give 10/1010*100,
\* while the other side holds 10
C15_Witness ==
    /\ calc.op = "calculate_price_impact"
    /\ calc.pool.tokenA.mint = calc.token_mint
    /\ calc.pool.tokenA.reserve = 1000
    /\ calc.pool.tokenB.reserve = 10
    /\ calc.amount_in = 10
    /\ calc.value = [num |-> 100, den |-> 101]

\* C16 (P4, percent change): _percent_change(x, x) = 0 for x # 0,
\* _percent_change(0, 0) = 0, _percent_change(0, y) is infinite for y # 0, and
\* for old # 0 the result is (new - old) / |old| * 100.
C16_PercentChange ==
    calc.op = "_percent_change"
    => /\ (calc.old = calc.new) => calc.value = [num |-> 0, den |-> 1]
       /\ (calc.old = 0 /\ calc.new # 0) => calc.value = Infinity
       /\ calc.old # 0 => IsFraction(calc.value, (calc.new - calc.old) * 100,
                                     IF calc.old < 0 THEN -calc.old ELSE calc.old)

\* a rise from a negative value: -4 to 2 is a change of +150 percent
C16_Witness ==
    /\ calc.op = "_percent_change"
    /\ calc.old = -4
    /\ calc.new = 2
    /\ calc.value = [num |-> 150, den |-> 1]

----------------------------------------------------------------------------
(* Claims about threads, checked under SpecRace and SpecSwap.               *)

\* C19 (unguarded rate limiter): two callers of refresh_pools(force=True) can
\* read the same last_rpc_call, both sleep and both call through, and two
\* provider calls then start less than rpc_rate_limit apart.  The state is
\* C19_Witness; the invariant says that this is the only way: two calls start
\* less than rpc_rate_limit apart only when the later caller read a
\* last_rpc_call older than the start of the earlier call.
C19_CloseCallsReadStale ==
    \A a \in Callers, b \in Callers :
        (/\ a # b
         /\ callers[a].started /\ callers[b].started
         /\ callers[a].start <= callers[b].start
         /\ callers[b].start - callers[a].start < rpc_rate_limit)
        => callers[b].read < callers[a].start

\* both callers read the same last_rpc_call, both slept, both called through,
\* and their provider calls started less than rpc_rate_limit apart
C19_Witness ==
    /\ callers["c1"].started /\ callers["c2"].started
    /\ callers["c1"].read = callers["c2"].read
    /\ callers["c1"].slept /\ callers["c2"].slept
    /\ Abs(callers["c1"].start - callers["c2"].start) < rpc_rate_limit

\* s is the beginning of l
IsPrefix(s, l) == Len(s) <= Len(l) /\ s = SubSeq(l, 1, Len(s))

\* C20 (atomic swap): a reader interleaved with running refreshes observes
\* the pools of one list that self.pools held as a whole, the previous or the
\* new one: never a mix of two lists, never a partially built list.
C20_AtomicSwap ==
    \A r \in Readers :
        readers[r].pc # "idle"
        => \E l \in memory.held :
             /\ IsPrefix(readers[r].seen, l)
             /\ readers[r].exhausted => readers[r].seen = l

\* a reader that started on the previous list, was overtaken by a swap to a
\* different list, and ended having seen the whole previous list
C20_Witness ==
    \E r \in Readers :
        /\ readers[r].exhausted
        /\ readers[r].seen = RunningListing
        /\ memory.pools_id > readers[r].pools_id
        /\ Len(pools) = 2 /\ pools # RunningListing
        /\ \E c \in Callers : callers[c].pc = "swapped"

----------------------------------------------------------------------------
(* Claims about the liquidity history and the snapshot.                    *)

\* the 'change' of entry e is the difference to the entry before it
ChangeFrom(e, before) ==
    /\ e.change.reserveA.absolute = e.reserveA - before.reserveA
    /\ e.change.reserveB.absolute = e.reserveB - before.reserveB
    /\ e.change.liquidity.absolute = e.liquidity - before.liquidity

\* C21 (history change): after any sequence of refreshes, an entry with a
\* 'change' has change.absolute equal to its own value minus the value of the
\* entry just before it in the same pool's history (reserveA, reserveB,
\* liquidity), and only the first entry ever recorded for a pool lacks 'change'.
C21_ChangeAgainstPrecedingEntry ==
    \A a \in Addresses :
        \A k \in DOMAIN liquidity_history[a] :
            LET e == liquidity_history[a][k]
            IN  IF e.has_change
                THEN k > 1 /\ ChangeFrom(e, liquidity_history[a][k - 1])
                ELSE k = 1 /\ Len(appended[a]) = Len(liquidity_history[a])

\* C22 (failed refresh leaves history): a refresh that does not complete
\* successfully (provider failure, malformed record, failure while
\* persisting) leaves the liquidity history of every pool unchanged.
C22_FailedRefreshLeavesHistory ==
    [][(last'.op = "refresh_pools" /\ provider_calls' # provider_calls
            /\ last'.fail_kind # "none")
        => liquidity_history' = liquidity_history]_vars

\* the entries of h that liquidity_change selects at time t for window w
Relevant(h, w, t) == SelectSeq(h, LAMBDA e : t - e.timestamp <= w)

\* C23 (timestamp order): the entries of each pool's history are in
\* non-decreasing timestamp order, oldest first, so the first and the last
\* entry liquidity_change selects are the oldest and the newest in the window.
C23_HistoryOrdered ==
    /\ \A a \in Addresses :
         \A i \in DOMAIN liquidity_history[a], j \in DOMAIN liquidity_history[a] :
            i <= j => liquidity_history[a][i].timestamp <= liquidity_history[a][j].timestamp
    /\ last.op = "liquidity_change"
       => LET relevant == Relevant(liquidity_history[last.pool_address],
                                   EffectiveWindow(last.window), last.t_entry)
          IN  \A k \in DOMAIN relevant :
                /\ relevant[1].timestamp <= relevant[k].timestamp
                /\ relevant[k].timestamp <= relevant[Len(relevant)].timestamp

\* liquidity_change returned the change between two entries of different times
C23_Witness ==
    /\ last.op = "liquidity_change"
    /\ ~last.ret_change.error
    /\ LET relevant == Relevant(liquidity_history[last.pool_address],
                                EffectiveWindow(last.window), last.t_entry)
       IN  /\ Len(relevant) >= 2
           /\ relevant[1].timestamp < relevant[Len(relevant)].timestamp

\* C24 (persistence round-trip): the pool list _load_cache restores is
\* equivalent to the list _save_cache wrote: the same pools in the same order,
\* with token objects on which find_pools, get_token_pairs and the diff of the
\* next refresh work as on the original (tokenA.mint, tokenA.reserve).
C24_RoundTrip ==
    (last.op = "refresh_pools" /\ last.loaded)
    => /\ Serialise(pools) = cache.content
       /\ \A i \in DOMAIN pools : pools[i].typed

====
